---------------------------- MODULE Spec2Model ----------------------------
(***************************************************************************)
(* RL Analyzer: the metrics pipeline of src/app.py (parse_match_data,      *)
(* aggregate_user_metrics, get_streamer_average,                           *)
(* compute_strengths_and_weaknesses, generate_tips), the upload handler    *)
(* and the store it writes, and the streamer upsert of src/scraper.py.     *)
(*                                                                         *)
(* Numbers.  A Python float x is the integer x * Unit, counted in ticks:   *)
(* a milli (0.001, the resolution of round(x, 3)) is TicksPerMilli ticks,  *)
(* so values finer than three decimals exist and rounding is a real        *)
(* operation.  When a value lies exactly half way between two millis the   *)
(* direction Python's round takes depends on the binary representation of  *)
(* the float; every rounding operator takes that direction as the          *)
(* argument `up`, and every action chooses it freely.                      *)
(***************************************************************************)
EXTENDS Integers, Sequences, FiniteSets, TLC

VARIABLES
    raw,         \* the raw match record handed to parse_match_data
    extracted,   \* what parse_match_data did with it
    subject,     \* user_metrics handed to compute_strengths_and_weaknesses
    baseline,    \* streamer_avg handed to it
    fperr,       \* per key, the representation error of its float difference
    comparison,  \* what it returned
    initialised, \* the tables of database.db exist (init_db has run)
    users,       \* rows of table users, in id order
    matches,     \* rows of table matches, in id order
    streamers,   \* rows of table streamers, in id order
    files,       \* the upload directory: file name -> content
    response,    \* the answer to the last HTTP request
    aggregated,  \* the last result of an aggregate taken on its own
    advised,     \* the strengths and weaknesses handed to generate_tips
    tips         \* what it returned

extractVars == <<raw, extracted>>
compareVars == <<subject, baseline, fperr, comparison>>
storeVars == <<initialised, users, matches, streamers, files, response>>
tipVars == <<advised, tips>>
vars == <<raw, extracted, subject, baseline, fperr, comparison,
          initialised, users, matches, streamers, files, response, aggregated,
          advised, tips>>

---------------------------------------------------------------------------
(* Bounds and resolution *)

MaxEvents == 3          \* longest event list drawn
MaxFrames == 3          \* largest explicit integer override drawn
TicksPerMilli == 4      \* ticks in 0.001
UlpsPerTick == 4        \* resolution of a float difference, finer than a tick
MilliPerUnit == 1000    \* round(x, 3): three decimals

Unit == MilliPerUnit * TicksPerMilli

Abs(x) == IF x < 0 THEN -x ELSE x

\* The integer nearest to p / q (q # 0); `up` decides an exact half.
RoundDiv(p, q, up) ==
    LET pp == IF q < 0 THEN -p ELSE p
        qq == Abs(q)
        fl == pp \div qq
        r  == pp % qq
    IN  IF 2 * r < qq THEN fl
        ELSE IF 2 * r > qq THEN fl + 1
        ELSE IF up THEN fl + 1 ELSE fl

Round3Truncating(p, q, up) == TicksPerMilli * ((p * MilliPerUnit) \div q)

\* round(p / q, 3) in ticks, p / q being the value in units.
Round3(p, q, up) == TicksPerMilli * RoundDiv(p * MilliPerUnit, q, up)

---------------------------------------------------------------------------
(* Python values read from the JSON document *)

PyNone == [t |-> "none", n |-> 0, s |-> ""]
PyNum(k) == [t |-> "num", n |-> k, s |-> ""]
PyInt(i) == PyNum(i * Unit)
PyStr(str) == [t |-> "str", n |-> 0, s |-> str]
PyBool(b) == [t |-> "bool", n |-> IF b THEN Unit ELSE 0, s |-> ""]
PyList(len) == [t |-> "list", n |-> len, s |-> ""]

\* bool(v)
Truthy(v) ==
    CASE v.t = "none" -> FALSE
      [] v.t = "str" -> v.s # ""
      [] OTHER -> v.n # 0

\* isinstance(v, (int, float)); bool is a subclass of int
IsNumber(v) == v.t \in {"num", "bool"}

\* float(v): the value, or the exception raised
Float(v) ==
    CASE v.t \in {"num", "bool"} -> [ok |-> TRUE, val |-> v.n, error |-> ""]
      [] v.t = "str" ->
           IF v.s \in {"0", "0.0"} THEN [ok |-> TRUE, val |-> 0, error |-> ""]
           ELSE IF v.s = "2" THEN [ok |-> TRUE, val |-> 2 * Unit, error |-> ""]
           ELSE [ok |-> FALSE, val |-> 0, error |-> "ValueError"]
      [] OTHER -> [ok |-> FALSE, val |-> 0, error |-> "TypeError"]

\* str.lower() on the identifiers drawn
Lower(str) ==
    CASE str = "Flip" -> "flip"
      [] str = "Jump_Flip" -> "jump_flip"
      [] str = "BOOST" -> "boost"
      [] OTHER -> str

\* One element of the events value: a dict with its button and action ("" when
\* the key is missing), or anything else.
Ev(b, a) == [isdict |-> TRUE, button |-> b, action |-> a]
NonDict == [isdict |-> FALSE, button |-> "", action |-> ""]

\* The events value of the document.
EvAbsent == [t |-> "absent", n |-> 0, items |-> <<>>]
EvNone == [t |-> "none", n |-> 0, items |-> <<>>]
EvNum(k) == [t |-> "num", n |-> k, items |-> <<>>]
EvList(items) == [t |-> "list", n |-> Len(items), items |-> items]
\* iterating a str or a dict yields strings, never dicts
EvStr(len) == [t |-> "str", n |-> len, items |-> [i \in 1..len |-> NonDict]]

Iterable(e) == e.t \in {"absent", "list", "str"}
EventsTruthy(e) == e.n # 0

ZeroMetrics == [boost_usage |-> 0, flip_count |-> 0, shots |-> 0, goals |-> 0]

---------------------------------------------------------------------------
(* parse_match_data *)

IsFlipButtonOnly(btn, action) == btn \in {"flip", "double_jump", "jump_flip"}

IsFlip(btn, action) ==
    btn \in {"flip", "double_jump", "jump_flip"} \/ action \in {"flip", "double_jump"}

IsBoost(btn, action) == btn = "boost" \/ action = "boost"

\* One pass of the loop body over `event`; acc holds flip_count and boost_frames.
EventStep(acc, event) ==
    IF ~event.isdict THEN acc
    ELSE LET btn == Lower(event.button)
             action == Lower(event.action)
         IN  [flip_count |->
                  IF IsFlip(btn, action) THEN acc.flip_count + 1 ELSE acc.flip_count,
              boost_frames |->
                  IF acc.boost_frames = PyNone /\ IsBoost(btn, action)
                  THEN PyNum((IF Truthy(acc.boost_frames) THEN acc.boost_frames.n ELSE 0) + Unit)
                  ELSE acc.boost_frames]

RECURSIVE EventLoop(_, _)
EventLoop(items, acc) ==
    IF items = <<>> THEN acc
    ELSE EventLoop(Tail(items), EventStep(acc, Head(items)))

Raised(err) ==
    [status |-> "raised", error |-> err, metrics |-> ZeroMetrics,
     boost_frames |-> PyNone, total_frames |-> PyNone, divided |-> FALSE]

Max(a, b) == IF a >= b THEN a ELSE b

ParseMatchData(rec, up) ==
    IF rec.kind \in {"unparsable", "missing"} THEN
        [status |-> "ok", error |-> "", metrics |-> ZeroMetrics,
         boost_frames |-> PyNone, total_frames |-> PyNone, divided |-> FALSE]
    ELSE IF rec.kind # "object" THEN Raised("AttributeError")
    ELSE
    LET events == rec.events
        acc0 == [flip_count |-> 0, boost_frames |-> rec.boost_frames]
        loops == EventsTruthy(events)
        acc == IF loops /\ Iterable(events) THEN EventLoop(events.items, acc0) ELSE acc0
        total_frames ==
            IF rec.total_frames = PyNone
            THEN PyInt(Max(Len(events.items), 1))
            ELSE rec.total_frames
        boost_frames == IF acc.boost_frames = PyNone THEN PyInt(0) ELSE acc.boost_frames
        shots == IF IsNumber(rec.shots) THEN rec.shots.n ELSE 0
        goals == IF IsNumber(rec.goals) THEN rec.goals.n ELSE 0
        fb == Float(boost_frames)
        ft == Float(total_frames)
    IN  IF loops /\ ~Iterable(events) THEN Raised("TypeError")
        ELSE IF rec.total_frames = PyNone /\ ~Iterable(events) THEN Raised("TypeError")
        ELSE IF Truthy(total_frames) /\ ~fb.ok THEN Raised(fb.error)
        ELSE IF Truthy(total_frames) /\ ~ft.ok THEN Raised(ft.error)
        ELSE IF Truthy(total_frames) /\ ft.val = 0 THEN
            [status |-> "raised", error |-> "ZeroDivisionError", metrics |-> ZeroMetrics,
             boost_frames |-> boost_frames, total_frames |-> total_frames,
             divided |-> TRUE]
        ELSE
            [status |-> "ok", error |-> "",
             metrics |->
                 [boost_usage |->
                      IF Truthy(total_frames) THEN Round3(fb.val, ft.val, up) ELSE 0,
                  flip_count |-> acc.flip_count * Unit,
                  shots |-> shots,
                  goals |-> goals],
             boost_frames |-> boost_frames, total_frames |-> total_frames,
             divided |-> Truthy(total_frames)]

---------------------------------------------------------------------------
(* Raw match records drawn for parse_match_data *)

EventItems ==
    {NonDict, Ev("flip", ""), Ev("Jump_Flip", "flip"), Ev("", "double_jump"),
     Ev("boost", ""), Ev("", "BOOST"), Ev("boost", "jump_flip")}

\* the sequences over S of length at most n
SeqsUpTo(S, n) == UNION {[1..k -> S] : k \in 0..n}

EventValues ==
    {EvAbsent, EvNone, EvNum(0), EvNum(5), EvStr(2)}
      \cup {EvList(items) : items \in SeqsUpTo(EventItems, MaxEvents)}

ScalarValues ==
    {PyNone, PyStr(""), PyStr("0"), PyStr("2"), PyStr("abc"),
     PyBool(FALSE), PyBool(TRUE), PyList(0), PyList(1), PyNum(Unit \div 2)}
      \cup {PyInt(i) : i \in -1..MaxFrames}

Rec(k, e, bf, tf, sh, go) ==
    [kind |-> k, events |-> e, boost_frames |-> bf, total_frames |-> tf,
     shots |-> sh, goals |-> go]

\* bytes that are not JSON, and JSON documents that are not objects
UnparsableRecord == Rec("unparsable", EvAbsent, PyNone, PyNone, PyNone, PyNone)
NonObjectRecord == Rec("nonobject", EvAbsent, PyNone, PyNone, PyNone, PyNone)
\* no file at the path: open() raises inside the try
MissingFile == Rec("missing", EvAbsent, PyNone, PyNone, PyNone, PyNone)

\* every events value, under a few overrides
RecordsByEvents ==
    {Rec("object", e, bf, tf, sh, PyNone) :
        e \in EventValues,
        bf \in {PyNone, PyInt(0), PyInt(2)},
        tf \in {PyNone, PyInt(0), PyInt(4)},
        sh \in {PyNone, PyInt(3)}}

\* every override, under a few events values
RecordsByOverrides ==
    {Rec("object", e, bf, tf, sh, go) :
        e \in {EvAbsent, EvList(<<Ev("boost", "")>>),
               EvList(<<Ev("flip", ""), Ev("boost", ""), Ev("boost", "")>>)},
        bf \in ScalarValues, tf \in ScalarValues, sh \in ScalarValues,
        go \in {PyNone, PyInt(1), PyNum(2 * Unit + 1)}}

IsRawRecord(r) ==
    \/ r \in {UnparsableRecord, NonObjectRecord}
    \/ r \in RecordsByEvents
    \/ r \in RecordsByOverrides

NotExtracted == [status |-> "none", error |-> "", metrics |-> ZeroMetrics,
                 boost_frames |-> PyNone, total_frames |-> PyNone, divided |-> FALSE]

---------------------------------------------------------------------------
(* The metrics columns and the two averages *)

Keys == <<"boost_usage", "flip_count", "shots", "goals">>
KeySet == {Keys[i] : i \in 1..Len(Keys)}

Milli(n) == n * TicksPerMilli
Metrics(bu, fc, sh, go) == [boost_usage |-> bu, flip_count |-> fc, shots |-> sh, goals |-> go]

\* json.dumps of a metrics dict, and json.loads of a metrics column
JsonDumps(m) == [valid |-> TRUE, dict |-> m]
JsonLoads(text) == [ok |-> text.valid, value |-> text.dict]

\* The loop over the fetched rows: a row that does not load is skipped.
RECURSIVE SumMetrics(_, _)
SumMetrics(rows, totals) ==
    IF rows = <<>> THEN totals
    ELSE LET loaded == JsonLoads(Head(rows))
         IN  SumMetrics(Tail(rows),
                        IF ~loaded.ok THEN totals
                        ELSE [k \in KeySet |-> totals[k] + loaded.value[k]])

MeanOfTruncating(totals, count, up) ==
    [k \in KeySet |-> Round3Truncating(totals[k], count * Unit, up)]

\* {k: round(v / count, 3) for k, v in totals.items()}
MeanOf(totals, count, up) ==
    [k \in KeySet |-> Round3(totals[k], count * Unit, up)]

\* SELECT metrics FROM matches WHERE user_id = ?
MatchMetricsOf(user_id, table) ==
    LET sel == SelectSeq(table, LAMBDA r : r.user_id = user_id)
    IN  [i \in 1..Len(sel) |-> sel[i].metrics]

\* SELECT metrics FROM streamers WHERE rank = ?
StreamerMetricsOf(rank, table) ==
    LET sel == SelectSeq(table, LAMBDA r : r.rank = rank)
    IN  [i \in 1..Len(sel) |-> sel[i].metrics]

DivisionFailure == [error |-> "ZeroDivisionError"]

AggregateUserMetricsUnguarded(user_id, table, up) ==
    LET rows == MatchMetricsOf(user_id, table)
    IN  IF rows = <<>> THEN DivisionFailure
        ELSE MeanOf(SumMetrics(rows, ZeroMetrics), Len(rows), up)

AggregateUserMetrics(user_id, table, up) ==
    LET rows == MatchMetricsOf(user_id, table)
    IN  IF rows = <<>> THEN ZeroMetrics
        ELSE MeanOf(SumMetrics(rows, ZeroMetrics), Len(rows), up)

GetStreamerAverage(rank, table, up) ==
    LET rows == StreamerMetricsOf(rank, table)
    IN  IF rows = <<>> THEN ZeroMetrics
        ELSE MeanOf(SumMetrics(rows, ZeroMetrics), Len(rows), up)

---------------------------------------------------------------------------
(* compute_strengths_and_weaknesses *)

\* A dict built by insertion: its items in insertion order.
HasKey(d, key) == \E i \in 1..Len(d) : d[i].k = key
ValueOf(d, key) == d[CHOOSE i \in 1..Len(d) : d[i].k = key].v

ExceedsOrEquals(d, biggest_delta) == d >= biggest_delta

\* abs(delta) > biggest_delta
Exceeds(d, biggest_delta) == d > biggest_delta

IsStrengthOrEqual(delta) == delta >= 0

\* delta > 0
IsStrength(delta) == delta > 0

\* user_val - avg_val as floats, in ulps.  Whole numbers subtract exactly and
\* equal values give 0.0; otherwise the decimal operands are not the floats that
\* stand for them and the difference is off by the error e, too small to change
\* its sign or its order against a different exact difference.
FloatSub(x, y, e) ==
    IF x = y THEN 0
    ELSE IF x % Unit = 0 /\ y % Unit = 0 THEN (x - y) * UlpsPerTick
    ELSE (x - y) * UlpsPerTick + e

FloatErrors == [KeySet -> {-1, 0, 1}]

\* the errors that can occur in the differences of these two tuples: none where
\* the difference is exact, and none where no other key has the same exact
\* magnitude, because there the error changes no comparison
FloatErrorsOf(user_metrics, streamer_avg) ==
    LET exact == [k \in KeySet |-> FloatSub(user_metrics[k], streamer_avg[k], 0)]
        free == {k \in KeySet :
                    /\ FloatSub(user_metrics[k], streamer_avg[k], 1) # exact[k]
                    /\ \E j \in KeySet \ {k} : Abs(exact[j]) = Abs(exact[k])}
    IN  {err \in FloatErrors : \A k \in KeySet \ free : err[k] = 0}

\* One pass of the loop body for `key`.
CompareStep(acc, key, user_metrics, streamer_avg, up, err) ==
    LET user_val == user_metrics[key]
        avg_val == IF key \in DOMAIN streamer_avg THEN streamer_avg[key] ELSE 0
        delta == FloatSub(user_val, avg_val, err[key])
        bigger == Exceeds(Abs(delta), acc.biggest_delta)
    IN  [strengths |->
             IF IsStrength(delta)
             THEN Append(acc.strengths,
                         [k |-> key, v |-> Round3(delta, Unit * UlpsPerTick, up)])
             ELSE acc.strengths,
         weaknesses |->
             IF ~IsStrength(delta) /\ delta < 0
             THEN Append(acc.weaknesses,
                         [k |-> key, v |-> Round3(-delta, Unit * UlpsPerTick, up)])
             ELSE acc.weaknesses,
         biggest_key |-> IF bigger THEN key ELSE acc.biggest_key,
         biggest_delta |-> IF bigger THEN Abs(delta) ELSE acc.biggest_delta]

RECURSIVE CompareLoop(_, _, _, _, _, _)
CompareLoop(keys, acc, user_metrics, streamer_avg, up, err) ==
    IF keys = <<>> THEN acc
    ELSE CompareLoop(Tail(keys),
                     CompareStep(acc, Head(keys), user_metrics, streamer_avg, up, err),
                     user_metrics, streamer_avg, up, err)

\* biggest_key "none" is Python's None
ComputeStrengthsAndWeaknesses(user_metrics, streamer_avg, up, err) ==
    LET acc == CompareLoop(Keys,
                           [strengths |-> <<>>, weaknesses |-> <<>>,
                            biggest_key |-> "none", biggest_delta |-> 0],
                           user_metrics, streamer_avg, up, err)
    IN  [strengths |-> acc.strengths, weaknesses |-> acc.weaknesses,
         biggest_key |-> acc.biggest_key]

---------------------------------------------------------------------------
(* generate_tips *)

\* the branch of the first loop's if/elif chain that k takes: what is appended
\* to short_term
ShortTermAdvice(k) ==
    CASE k = "boost_usage" ->
            <<"Work on managing your boost more efficiently. Try to use small pads to stay stocked.">>
      [] k = "flip_count" ->
            <<"Practice aerial control and flipping mechanics in free play to increase your flip count.">>
      [] k = "shots" ->
            <<"Focus on taking more shots during matches. Position yourself to create shooting opportunities.">>
      [] k = "goals" ->
            <<"Work on finishing plays and accuracy to convert shots into goals.">>
      [] OTHER -> <<>>

\* the same for the second loop and long_term
LongTermAdvice(k) ==
    CASE k = "boost_usage" ->
            <<"Continue to refine your boost management. Use efficient routes to maintain high boost levels.">>
      [] k = "flip_count" ->
            <<"Keep practicing advanced movement like wave dashes and flip resets to stay ahead.">>
      [] k = "shots" ->
            <<"Maintain your shooting pace; practice different angles and power shots.">>
      [] k = "goals" ->
            <<"Keep improving goal conversion by working on placement and deception.">>
      [] OTHER -> <<>>

RECURSIVE ShortTermLoopPrepending(_, _)
ShortTermLoopPrepending(weaknesses, short_term) ==
    IF weaknesses = <<>> THEN short_term
    ELSE ShortTermLoopPrepending(Tail(weaknesses),
                                 ShortTermAdvice(Head(weaknesses).k) \o short_term)

\* for k in weaknesses: ... short_term.append(...)
RECURSIVE ShortTermLoop(_, _)
ShortTermLoop(weaknesses, short_term) ==
    IF weaknesses = <<>> THEN short_term
    ELSE ShortTermLoop(Tail(weaknesses),
                       short_term \o ShortTermAdvice(Head(weaknesses).k))

\* for k in strengths: ... long_term.append(...)
RECURSIVE LongTermLoop(_, _)
LongTermLoop(strengths, long_term) ==
    IF strengths = <<>> THEN long_term
    ELSE LongTermLoop(Tail(strengths),
                      long_term \o LongTermAdvice(Head(strengths).k))

GenerateTips(strengths, weaknesses) ==
    [returned |-> TRUE,
     short_term |-> ShortTermLoop(weaknesses, <<>>),
     long_term |-> LongTermLoop(strengths, <<>>)]

---------------------------------------------------------------------------
(* The store: init_db, the scraper's upsert, the request handlers *)

MaxMatches == 2         \* uploads accepted in one behaviour of Spec
MaxRows == 3            \* longest matches table drawn for the averages alone

FileNames == {"a.json", "match.json"}
EmptyDir == [f \in FileNames |-> MissingFile]

\* file_field.filename or 'match.json', then os.path.basename
SavePath(filename) ==
    LET named == IF filename = "" THEN "match.json" ELSE filename
    IN  IF named = "replays/a.json" THEN "a.json" ELSE named

DefaultUser ==
    [id |-> 1, username |-> "Player1", rank |-> "Gold", followers |-> 0, friends |-> 0]

\* INSERT into a table whose id is AUTOINCREMENT and whose rows are never deleted
Insert(table, row) == Append(table, [row EXCEPT !.id = Len(table) + 1])

DummyStreamers ==
    <<[id |-> 1, name |-> "StreamerAlpha", rank |-> "Bronze",
       metrics |-> JsonDumps(Metrics(Milli(300), 5 * Unit, 1 * Unit, 0))],
      [id |-> 2, name |-> "StreamerBeta", rank |-> "Silver",
       metrics |-> JsonDumps(Metrics(Milli(350), 7 * Unit, 2 * Unit, Milli(200)))],
      [id |-> 3, name |-> "StreamerGamma", rank |-> "Gold",
       metrics |-> JsonDumps(Metrics(Milli(400), 9 * Unit, 3 * Unit, Milli(400)))],
      [id |-> 4, name |-> "StreamerDelta", rank |-> "Platinum",
       metrics |-> JsonDumps(Metrics(Milli(450), 11 * Unit, Milli(3500), Milli(600)))],
      [id |-> 5, name |-> "StreamerEpsilon", rank |-> "Diamond",
       metrics |-> JsonDumps(Metrics(Milli(500), 13 * Unit, 4 * Unit, Milli(800)))]>>

\* SELECT id FROM users ORDER BY id LIMIT 1; 1 when there is no user
GetDefaultUserId(table) == IF table = <<>> THEN 1 ELSE table[1].id

Ranks == <<"Bronze", "Silver", "Gold", "Platinum", "Diamond", "Champ", "GrandChamp">>
RankSet == {Ranks[i] : i \in 1..Len(Ranks)}

\* scrape_streamer_metrics: the names in order, each with a random rank and
\* metrics around the rank's index; the random draws are cut to these.
ScrapedNames == <<"YouTubePro", "TwitchMaster">>
ScrapedRankIdx == {3, 5}
Noises == {[bu |-> 20, fc |-> 1, sh |-> Milli(250) + 1, go |-> -50]}

ScrapedMetrics(idx, noise) ==
    Metrics(Milli(250 + idx * 50 + noise.bu),
            (4 + idx * 2 + noise.fc) * Unit,
            Unit + idx * Milli(800) + noise.sh,
            Milli(100 + idx * 150 + noise.go))

ScrapedEntries(name) ==
    {[name |-> name, rank |-> Ranks[idx], metrics |-> ScrapedMetrics(idx, noise)] :
        idx \in ScrapedRankIdx, noise \in Noises}

ScrapedData ==
    {data \in [1..Len(ScrapedNames) -> UNION {ScrapedEntries(ScrapedNames[i]) :
                                               i \in 1..Len(ScrapedNames)}] :
        \A i \in 1..Len(ScrapedNames) : data[i].name = ScrapedNames[i]}

UpsertAlwaysInsert(table, entry) ==
    Insert(table, [id |-> 0, name |-> entry.name, rank |-> entry.rank,
                   metrics |-> JsonDumps(entry.metrics)])

\* One pass of update_streamer_table's loop: the first row of that name is
\* updated by id, or a row is inserted.
Upsert(table, entry) ==
    LET hits == {i \in 1..Len(table) : table[i].name = entry.name}
    IN  IF hits # {}
        THEN LET i == CHOOSE j \in hits : \A h \in hits : j <= h
             IN  [r \in 1..Len(table) |->
                     IF table[r].id = table[i].id
                     THEN [table[r] EXCEPT !.rank = entry.rank,
                                           !.metrics = JsonDumps(entry.metrics)]
                     ELSE table[r]]
        ELSE Insert(table, [id |-> 0, name |-> entry.name, rank |-> entry.rank,
                            metrics |-> JsonDumps(entry.metrics)])

RECURSIVE UpsertAll(_, _)
UpsertAll(table, data) ==
    IF data = <<>> THEN table
    ELSE UpsertAll(Upsert(table, Head(data)), Tail(data))

NoResponse == [status |-> 0, page |-> "none", body |-> "none"]
\* the handler raised: the server logs the error and closes the connection
ConnectionClosed == [status |-> 0, page |-> "error", body |-> "none"]
NoAggregate == [fn |-> "none", user_id |-> 0, rank |-> "", value |-> ZeroMetrics]

InitDbReseeding ==
    /\ initialised' = TRUE
    /\ users' = IF users = <<>> THEN <<DefaultUser>> ELSE users
    /\ streamers' = DummyStreamers
    /\ UNCHANGED <<matches, files, response, extractVars, compareVars, aggregated, tipVars>>

\* CREATE TABLE IF NOT EXISTS leaves existing tables alone; then the two seeds
InitDb ==
    /\ initialised' = TRUE
    /\ users' = IF users = <<>> THEN <<DefaultUser>> ELSE users
    /\ streamers' = IF streamers = <<>> THEN DummyStreamers ELSE streamers
    /\ UNCHANGED <<matches, files, response, extractVars, compareVars, aggregated, tipVars>>

UpdateStreamerTable ==
    /\ initialised
    /\ \E data \in ScrapedData : streamers' = UpsertAll(streamers, data)
    /\ UNCHANGED <<initialised, users, matches, files, response,
                   extractVars, compareVars, aggregated, tipVars>>

InsertMatchByPath(table, user_id, save_path, metrics) ==
    IF \E i \in 1..Len(table) : table[i].file_path = save_path
    THEN [i \in 1..Len(table) |->
             IF table[i].file_path = save_path
             THEN [table[i] EXCEPT !.user_id = user_id, !.metrics = JsonDumps(metrics)]
             ELSE table[i]]
    ELSE Insert(table, [id |-> 0, user_id |-> user_id, file_path |-> save_path,
                        metrics |-> JsonDumps(metrics)])

\* INSERT INTO matches (user_id, file_path, metrics)
InsertMatch(table, user_id, save_path, metrics) ==
    Insert(table, [id |-> 0, user_id |-> user_id, file_path |-> save_path,
                   metrics |-> JsonDumps(metrics)])

\* POST /upload with a multipart body that holds match_file
HandleUpload(filename, content) ==
    /\ initialised
    /\ Len(matches) < MaxMatches
    /\ \E up \in BOOLEAN :
          LET save_path == SavePath(filename)
              parsed == ParseMatchData(content, up)
          IN  /\ files' = [files EXCEPT ![save_path] = content]
              /\ IF parsed.status = "raised"
                 THEN /\ matches' = matches
                      /\ response' = ConnectionClosed
                 ELSE /\ matches' = InsertMatch(matches, GetDefaultUserId(users),
                                                save_path, parsed.metrics)
                      /\ response' = [status |-> 303, page |-> "/profile", body |-> "none"]
    /\ UNCHANGED <<initialised, users, streamers, extractVars, compareVars, aggregated, tipVars>>

\* POST /upload answered 400
RejectUpload ==
    /\ initialised
    /\ \/ response' = [status |-> 400, page |-> "upload",
                       body |-> "Unsupported content type"]
       \/ response' = [status |-> 400, page |-> "upload", body |-> "No file uploaded"]
    /\ UNCHANGED <<initialised, users, matches, streamers, files,
                   extractVars, compareVars, aggregated, tipVars>>

\* GET /profile (the top-games line of the page is left out of the body)
RenderProfile ==
    /\ initialised
    /\ \E up \in BOOLEAN :
          LET user_id == GetDefaultUserId(users)
              rows == SelectSeq(users, LAMBDA u : u.id = user_id)
          IN  response' =
                  [status |-> 200, page |-> "profile",
                   body |-> [username |-> IF rows # <<>> THEN rows[1].username ELSE "Unknown",
                             rank |-> IF rows # <<>> THEN rows[1].rank ELSE "Unranked",
                             metrics |-> AggregateUserMetrics(user_id, matches, up)]]
    /\ UNCHANGED <<initialised, users, matches, streamers, files,
                   extractVars, compareVars, aggregated, tipVars>>

\* GET /coach; the page shows the tips one per line, or the line that says
\* there is none
RenderCoach ==
    /\ initialised
    /\ \E up \in BOOLEAN :
          LET user_id == GetDefaultUserId(users)
              rows == SelectSeq(users, LAMBDA u : u.id = user_id)
              user_rank == IF rows # <<>> THEN rows[1].rank ELSE "Unranked"
              user_metrics == AggregateUserMetrics(user_id, matches, up)
              streamer_avg == GetStreamerAverage(user_rank, streamers, up)
          IN  \E err \in FloatErrorsOf(user_metrics, streamer_avg) :
                LET result == ComputeStrengthsAndWeaknesses(user_metrics, streamer_avg,
                                                            up, err)
                    advice == GenerateTips(result.strengths, result.weaknesses)
                IN  response' =
                        [status |-> 200, page |-> "coach",
                         body |-> [rank |-> user_rank,
                                   biggest_diff |->
                                       IF result.biggest_key = "none" THEN "N/A"
                                       ELSE result.biggest_key,
                                   strengths |-> result.strengths,
                                   weaknesses |-> result.weaknesses,
                                   short_tips |->
                                       IF advice.short_term = <<>>
                                       THEN <<"No immediate suggestions.">>
                                       ELSE advice.short_term,
                                   long_tips |->
                                       IF advice.long_term = <<>>
                                       THEN <<"No long term suggestions.">>
                                       ELSE advice.long_term]]
    /\ UNCHANGED <<initialised, users, matches, streamers, files,
                   extractVars, compareVars, aggregated, tipVars>>

\* GET of the home page, the upload form, or a path with no route
RenderOther ==
    /\ initialised
    /\ \E page \in {"home", "upload"} :
          response' = [status |-> 200, page |-> page, body |-> "none"]
    /\ UNCHANGED <<initialised, users, matches, streamers, files,
                   extractVars, compareVars, aggregated, tipVars>>

NotFound ==
    /\ initialised
    /\ response' = [status |-> 404, page |-> "none", body |-> "404 Not Found"]
    /\ UNCHANGED <<initialised, users, matches, streamers, files,
                   extractVars, compareVars, aggregated, tipVars>>

\* what the clients of Spec upload
UploadRecords ==
    {UnparsableRecord, NonObjectRecord,
     Rec("object", EvList(<<Ev("flip", ""), Ev("boost", ""), Ev("boost", "")>>),
         PyNone, PyNone, PyNone, PyNone),
     Rec("object", EvAbsent, PyInt(1), PyInt(2), PyInt(3), PyInt(1))}

UploadFilenames == {"", "a.json", "replays/a.json"}

---------------------------------------------------------------------------
(* SpecExtract: parse_match_data applied to one raw record *)

NoComparison == [strengths |-> <<>>, weaknesses |-> <<>>, biggest_key |-> "unset"]

IdleCompare ==
    /\ subject = ZeroMetrics
    /\ baseline = ZeroMetrics
    /\ fperr = [k \in KeySet |-> 0]
    /\ comparison = NoComparison

NoTips == [returned |-> FALSE, short_term |-> <<>>, long_term |-> <<>>]

IdleTips ==
    /\ advised = [strengths |-> <<>>, weaknesses |-> <<>>]
    /\ tips = NoTips

\* the store as the first init_db leaves it
IdleStore ==
    /\ initialised = TRUE
    /\ users = <<DefaultUser>>
    /\ matches = <<>>
    /\ streamers = DummyStreamers
    /\ files = EmptyDir
    /\ response = NoResponse
    /\ aggregated = NoAggregate

IdleExtract ==
    /\ raw = UnparsableRecord
    /\ extracted = NotExtracted

InitExtract ==
    /\ IsRawRecord(raw)
    /\ extracted = NotExtracted
    /\ IdleCompare
    /\ IdleStore
    /\ IdleTips

Extract ==
    /\ extracted.status = "none"
    /\ \E up \in BOOLEAN : extracted' = ParseMatchData(raw, up)
    /\ UNCHANGED <<raw, compareVars, storeVars, aggregated, tipVars>>

NextExtract == Extract

SpecExtract == InitExtract /\ [][NextExtract]_vars

---------------------------------------------------------------------------
(* SpecCompare: compute_strengths_and_weaknesses applied to one pair *)

SubjectTuples ==
    {Metrics(bu, fc, sh, go) :
        bu \in {Milli(400), Milli(500)},
        fc \in {9 * Unit, 10 * Unit},
        sh \in {3 * Unit, 5 * Unit, 3 * Unit + 1, 3 * Unit + TicksPerMilli \div 2},
        go \in {0, Unit, Unit + Milli(100)}}

InitCompare ==
    /\ subject \in SubjectTuples
    /\ baseline \in SubjectTuples
    /\ fperr \in FloatErrorsOf(subject, baseline)
    /\ comparison = NoComparison
    /\ IdleExtract
    /\ IdleStore
    /\ IdleTips

Compare ==
    /\ comparison.biggest_key = "unset"
    /\ \E up \in BOOLEAN :
          comparison' = ComputeStrengthsAndWeaknesses(subject, baseline, up, fperr)
    /\ UNCHANGED <<subject, baseline, fperr, extractVars, storeVars, aggregated, tipVars>>

NextCompare == Compare

SpecCompare == InitCompare /\ [][NextCompare]_vars

---------------------------------------------------------------------------
(* SpecTips: generate_tips applied to one pair of mappings *)

MaxKeys == 3            \* most keys in a mapping handed to generate_tips

\* the keys of the mappings: the canonical four and one that is not
TipKeys == KeySet \cup {"assists"}

\* a dict of at most MaxKeys keys, as the sequence of its items in iteration order
Mappings ==
    {d \in UNION {[1..n -> [k : TipKeys, v : {Milli(500)}]] : n \in 0..MaxKeys} :
        \A i, j \in 1..Len(d) : d[i].k = d[j].k => i = j}

InitTips ==
    /\ advised \in [strengths : Mappings, weaknesses : Mappings]
    /\ tips = NoTips
    /\ IdleExtract
    /\ IdleCompare
    /\ IdleStore

Tips ==
    /\ ~tips.returned
    /\ tips' = GenerateTips(advised.strengths, advised.weaknesses)
    /\ UNCHANGED <<advised, extractVars, compareVars, storeVars, aggregated>>

NextTips == Tips

SpecTips == InitTips /\ [][NextTips]_vars

---------------------------------------------------------------------------
(* Spec: the server and the scraper on one database *)

Init ==
    /\ initialised = FALSE
    /\ users = <<>>
    /\ matches = <<>>
    /\ streamers = <<>>
    /\ files = EmptyDir
    /\ response = NoResponse
    /\ aggregated = NoAggregate
    /\ IdleExtract
    /\ IdleCompare
    /\ IdleTips

Upload == \E filename \in UploadFilenames, content \in UploadRecords :
              HandleUpload(filename, content)

Next ==
    \/ InitDb
    \/ UpdateStreamerTable
    \/ Upload
    \/ RejectUpload
    \/ RenderProfile
    \/ RenderCoach
    \/ RenderOther
    \/ NotFound

Spec == Init /\ [][Next]_vars

---------------------------------------------------------------------------
(* SpecAggregate: the two averages applied to one database *)

\* records whose metrics the drawn matches tables hold
StoredRecords ==
    {UnparsableRecord,
     Rec("object", EvList(<<Ev("flip", ""), Ev("boost", ""), Ev("boost", "")>>),
         PyNone, PyNone, PyNone, PyNone),
     Rec("object", EvAbsent, PyInt(1), PyInt(2), PyInt(3), PyInt(1)),
     Rec("object", EvList(<<Ev("flip", ""), Ev("Jump_Flip", "flip")>>),
         PyNone, PyNone, PyNum(2 * Unit + 1), PyNum(Unit \div 2)),
     Rec("object", EvAbsent, PyInt(2), PyInt(3), PyInt(1), PyNone)}

\* the matches table after each of `contents` was uploaded as match.json
RECURSIVE UploadAll(_, _)
UploadAll(table, contents) ==
    IF contents = <<>> THEN table
    ELSE UploadAll(InsertMatch(table, DefaultUser.id, "match.json",
                               ParseMatchData(Head(contents), TRUE).metrics),
                   Tail(contents))

InitAggregate ==
    /\ initialised = TRUE
    /\ users = <<DefaultUser>>
    /\ \/ /\ \E contents \in SeqsUpTo(StoredRecords, MaxRows) :
                /\ matches = UploadAll(<<>>, contents)
                /\ files = IF contents = <<>> THEN EmptyDir
                           ELSE [EmptyDir EXCEPT !["match.json"] = contents[Len(contents)]]
          /\ streamers = DummyStreamers
       \/ /\ matches = <<>>
          /\ files = EmptyDir
          /\ \E data \in ScrapedData : streamers = UpsertAll(DummyStreamers, data)
    /\ response = NoResponse
    /\ aggregated = NoAggregate
    /\ IdleExtract
    /\ IdleCompare
    /\ IdleTips

AggregateUser ==
    /\ aggregated.fn = "none"
    /\ \E user_id \in {1, 2}, up \in BOOLEAN :
          aggregated' = [fn |-> "aggregate_user_metrics", user_id |-> user_id, rank |-> "",
                         value |-> AggregateUserMetrics(user_id, matches, up)]
    /\ UNCHANGED <<storeVars, extractVars, compareVars, tipVars>>

StreamerAverage ==
    /\ aggregated.fn = "none"
    /\ \E rank \in RankSet, up \in BOOLEAN :
          aggregated' = [fn |-> "get_streamer_average", user_id |-> 0, rank |-> rank,
                         value |-> GetStreamerAverage(rank, streamers, up)]
    /\ UNCHANGED <<storeVars, extractVars, compareVars, tipVars>>

NextAggregate == AggregateUser \/ StreamerAverage

SpecAggregate == InitAggregate /\ [][NextAggregate]_vars

---------------------------------------------------------------------------
(* Claims about parse_match_data, checked under SpecExtract *)

Done == extracted.status # "none"
Returned == extracted.status = "ok"

Sum(f, S) ==
    LET RECURSIVE Add(_)
        Add(T) == IF T = {} THEN 0
                  ELSE LET x == CHOOSE y \in T : TRUE IN f[x] + Add(T \ {x})
    IN  Add(S)

\* the events of the record that are dicts, by position
DictEvents(rec) == {i \in 1..Len(rec.events.items) : rec.events.items[i].isdict}

BoostEvents(rec) ==
    {i \in DictEvents(rec) :
        "boost" \in {Lower(rec.events.items[i].button), Lower(rec.events.items[i].action)}}

FlipEvents(rec) ==
    {i \in DictEvents(rec) :
        \/ Lower(rec.events.items[i].button) \in {"flip", "double_jump", "jump_flip"}
        \/ Lower(rec.events.items[i].action) \in {"flip", "double_jump"}}

\* C1: for every raw record parse_match_data returns, without raising, a tuple
\* of the four keys, each >= 0; an unparsable record gives the all-zero tuple.
C1_ExtractAlwaysReturnsValidTuple ==
    Done =>
        /\ extracted.status = "ok"
        /\ DOMAIN extracted.metrics = KeySet
        /\ \A k \in KeySet : extracted.metrics[k] >= 0
        /\ (raw.kind = "unparsable" => extracted.metrics = ZeroMetrics)

\* C2: with no explicit boost_frames, the boost_frames used is the number of
\* events whose button or action is "boost".
C2_BoostFramesCountBoostEvents ==
    (Returned /\ raw.kind = "object" /\ raw.boost_frames = PyNone) =>
        extracted.boost_frames = PyInt(Cardinality(BoostEvents(raw)))

\* C3: boost_usage of every returned tuple lies in [0, 1].
C3_BoostUsageInUnitRange ==
    Returned => (0 <= extracted.metrics.boost_usage /\ extracted.metrics.boost_usage <= Unit)

\* C9: flip_count is the number of events whose lowercased button is flip,
\* double_jump or jump_flip, or whose lowercased action is flip or double_jump,
\* each such event counted once, whatever overrides the record gives.
C9_FlipCountCountsFlipEvents ==
    (Returned /\ raw.kind = "object") =>
        extracted.metrics.flip_count = Cardinality(FlipEvents(raw)) * Unit

\* an event matching on button (after lowercasing) and on action, counted once,
\* in a record that gives every override
C9_Witness ==
    /\ Returned
    /\ raw.events.items = <<Ev("Jump_Flip", "flip"), Ev("", "double_jump")>>
    /\ raw.boost_frames # PyNone /\ raw.total_frames # PyNone /\ raw.shots # PyNone
    /\ extracted.metrics.flip_count = 2 * Unit

\* C10: the divisor is the explicit total_frames when given, else the number of
\* events, else 1; it is never zero and no record makes the division fail.
C10_DivisorNeverZero ==
    Done =>
        /\ extracted.error # "ZeroDivisionError"
        /\ (extracted.divided => Float(extracted.total_frames).val # 0)
        /\ (Returned /\ raw.kind = "object" =>
               extracted.total_frames =
                   IF raw.total_frames # PyNone THEN raw.total_frames
                   ELSE IF Len(raw.events.items) > 0 THEN PyInt(Len(raw.events.items))
                   ELSE PyInt(1))

---------------------------------------------------------------------------
(* Claims about the store, checked under Spec *)

\* C4: the file a match row points at still holds what was uploaded for that
\* row, so the row's metrics are parse_match_data of that file.
C4_StoredRecordUnchanged ==
    \A i \in 1..Len(matches) :
        \E up \in BOOLEAN :
            LET parsed == ParseMatchData(files[matches[i].file_path], up)
            IN  /\ parsed.status = "ok"
                /\ JsonLoads(matches[i].metrics).value = parsed.metrics

---------------------------------------------------------------------------
(* Claims about the averages, checked under SpecAggregate *)

\* v is a whole number of millis and no milli is nearer to total / n
IsRoundedMean(v, total, n) ==
    /\ v % TicksPerMilli = 0
    /\ 2 * Abs(v * n - total) <= n * TicksPerMilli

UserRows == {i \in 1..Len(matches) : matches[i].user_id = aggregated.user_id}
RankRows == {i \in 1..Len(streamers) : streamers[i].rank = aggregated.rank}

UserTotal(k) == Sum([i \in UserRows |-> matches[i].metrics.dict[k]], UserRows)
RankTotal(k) == Sum([i \in RankRows |-> streamers[i].metrics.dict[k]], RankRows)

\* C5: over n >= 1 stored tuples each key of the result is the sum of that key
\* divided by n, rounded to 3 decimals; for n = 1 it is the tuple, rounded.
C5_AggregateIsRoundedMean ==
    /\ (aggregated.fn = "aggregate_user_metrics" /\ UserRows # {}) =>
           \A k \in KeySet :
               IsRoundedMean(aggregated.value[k], UserTotal(k), Cardinality(UserRows))
    /\ (aggregated.fn = "get_streamer_average" /\ RankRows # {}) =>
           \A k \in KeySet :
               IsRoundedMean(aggregated.value[k], RankTotal(k), Cardinality(RankRows))

\* three matches whose flip counts do not divide evenly
C5_Witness ==
    /\ aggregated.fn = "aggregate_user_metrics"
    /\ Cardinality(UserRows) = 3
    /\ UserTotal("flip_count") = 2 * Unit
    /\ aggregated.value.flip_count = Milli(667)

\* C6: the average over no rows is the all-zero tuple.
C6_EmptyAggregateIsZero ==
    /\ (aggregated.fn = "aggregate_user_metrics" /\ UserRows = {}) =>
           aggregated.value = ZeroMetrics
    /\ (aggregated.fn = "get_streamer_average" /\ RankRows = {}) =>
           aggregated.value = ZeroMetrics

C6_Witness ==
    /\ aggregated.fn = "aggregate_user_metrics"
    /\ matches = <<>>
    /\ aggregated.value = ZeroMetrics

---------------------------------------------------------------------------
(* Claims about compute_strengths_and_weaknesses, checked under SpecCompare *)

Compared == comparison.biggest_key # "unset"
\* the difference the code computes for key k, in ulps
Delta(k) == FloatSub(subject[k], baseline[k], fperr[k])

Classified(k) ==
    /\ HasKey(comparison.strengths, k) <=> Delta(k) > 0
    /\ HasKey(comparison.weaknesses, k) <=> Delta(k) < 0
    /\ ~(HasKey(comparison.strengths, k) /\ HasKey(comparison.weaknesses, k))
    /\ Cardinality({i \in 1..Len(comparison.strengths) : comparison.strengths[i].k = k}) <= 1
    /\ Cardinality({i \in 1..Len(comparison.weaknesses) : comparison.weaknesses[i].k = k}) <= 1
    /\ HasKey(comparison.strengths, k) => ValueOf(comparison.strengths, k) >= 0
    /\ HasKey(comparison.weaknesses, k) => ValueOf(comparison.weaknesses, k) >= 0

\* C7 as stated: a key is a strength of magnitude delta iff delta > 0, a weakness
\* of magnitude -delta iff delta < 0, in neither iff delta = 0, never in both.
C7_MagnitudeIsDelta ==
    Compared =>
        \A k \in KeySet :
            /\ Classified(k)
            /\ HasKey(comparison.strengths, k) =>
                   ValueOf(comparison.strengths, k) * UlpsPerTick = Delta(k)
            /\ HasKey(comparison.weaknesses, k) =>
                   ValueOf(comparison.weaknesses, k) * UlpsPerTick = -Delta(k)

\* C7 as amended: the same, the magnitude being delta (or -delta) rounded to 3
\* decimals.
C7_MagnitudeIsRoundedDelta ==
    Compared =>
        \A k \in KeySet :
            /\ Classified(k)
            /\ HasKey(comparison.strengths, k) =>
                   IsRoundedMean(ValueOf(comparison.strengths, k), Delta(k), UlpsPerTick)
            /\ HasKey(comparison.weaknesses, k) =>
                   IsRoundedMean(ValueOf(comparison.weaknesses, k), -Delta(k), UlpsPerTick)

\* a strength whose delta is finer than a milli, a weakness, and a key in neither
C7_Witness ==
    /\ Compared
    /\ subject.shots - baseline.shots = 1
    /\ HasKey(comparison.strengths, "shots")
    /\ ValueOf(comparison.strengths, "shots") = 0
    /\ HasKey(comparison.weaknesses, "goals")
    /\ Delta("flip_count") = 0
    /\ ~HasKey(comparison.strengths, "flip_count")
    /\ ~HasKey(comparison.weaknesses, "flip_count")

MaxAbsDelta == CHOOSE m \in {Abs(Delta(k)) : k \in KeySet} :
                   \A k \in KeySet : Abs(Delta(k)) <= m

\* C8: the largest-delta key is the first key in canonical order whose absolute
\* delta is the maximum; it is none iff every delta is zero, and then strengths
\* and weaknesses are empty.
C8_BiggestIsFirstMaximum ==
    Compared =>
        IF MaxAbsDelta = 0
        THEN /\ comparison.biggest_key = "none"
             /\ comparison.strengths = <<>>
             /\ comparison.weaknesses = <<>>
        ELSE LET first == CHOOSE i \in 1..Len(Keys) :
                              /\ Abs(Delta(Keys[i])) = MaxAbsDelta
                              /\ \A j \in 1..(i - 1) : Abs(Delta(Keys[j])) < MaxAbsDelta
             IN  comparison.biggest_key = Keys[first]

\* two keys share the largest absolute delta and the earlier one is reported
C8_Witness ==
    /\ Compared
    /\ Abs(Delta("flip_count")) = MaxAbsDelta
    /\ Abs(Delta("goals")) = MaxAbsDelta
    /\ MaxAbsDelta > 0
    /\ comparison.biggest_key = "flip_count"

---------------------------------------------------------------------------
(* Claims about the tips, checked under SpecTips *)

\* the items of mapping d whose key is canonical, in d's order
Canonical(d) == SelectSeq(d, LAMBDA item : item.k \in KeySet)

ShortTermText ==
    [boost_usage |-> "Work on managing your boost more efficiently. Try to use small pads to stay stocked.",
     flip_count |-> "Practice aerial control and flipping mechanics in free play to increase your flip count.",
     shots |-> "Focus on taking more shots during matches. Position yourself to create shooting opportunities.",
     goals |-> "Work on finishing plays and accuracy to convert shots into goals."]

LongTermText ==
    [boost_usage |-> "Continue to refine your boost management. Use efficient routes to maintain high boost levels.",
     flip_count |-> "Keep practicing advanced movement like wave dashes and flip resets to stay ahead.",
     shots |-> "Maintain your shooting pace; practice different angles and power shots.",
     goals |-> "Keep improving goal conversion by working on placement and deception."]

\* C11: generate_tips always returns; short_term holds exactly one fixed advice
\* string per canonical key of weaknesses and long_term one per canonical key of
\* strengths, each in the iteration order of its mapping, and a key outside the
\* canonical four adds nothing.
C11_TipsFollowCanonicalKeys ==
    tips.returned =>
        LET weak == Canonical(advised.weaknesses)
            strong == Canonical(advised.strengths)
        IN  /\ Len(tips.short_term) = Len(weak)
            /\ \A i \in 1..Len(weak) : tips.short_term[i] = ShortTermText[weak[i].k]
            /\ Len(tips.long_term) = Len(strong)
            /\ \A i \in 1..Len(strong) : tips.long_term[i] = LongTermText[strong[i].k]

\* weaknesses hold goals, a key that is not canonical, and shots, in that order,
\* and the tips are the goals advice followed by the shots advice
C11_Witness ==
    /\ tips.returned
    /\ Len(advised.weaknesses) = 3
    /\ advised.weaknesses[1].k = "goals"
    /\ advised.weaknesses[2].k = "assists"
    /\ advised.weaknesses[3].k = "shots"
    /\ advised.strengths = <<>>
    /\ tips.short_term = <<ShortTermText.goals, ShortTermText.shots>>
    /\ tips.long_term = <<>>

---------------------------------------------------------------------------
(* Claims about the tables, checked under Spec *)

\* C12: the match rows are append-only.  Every step keeps each row already
\* stored as it is; an upload answered 303 adds exactly one row, for the default
\* user; a rejected upload (400) and every GET add none; and nothing but an
\* upload answered 303 adds a row.
C12_MatchRowsAppendOnly ==
    [][/\ Len(matches') >= Len(matches)
       /\ \A i \in 1..Len(matches) : matches'[i] = matches[i]
       /\ (response'.status = 303 /\ Upload =>
              /\ Len(matches') = Len(matches) + 1
              /\ matches'[Len(matches')].user_id = GetDefaultUserId(users))
       /\ \/ matches' = matches
          \/ ~(RejectUpload \/ RenderProfile \/ RenderCoach \/ RenderOther \/ NotFound)
       /\ (matches' # matches => response'.status = 303 /\ Upload)]_vars

\* two uploads were saved under one file name with different contents, both rows
\* are there with their own metrics, the streamers were updated since, and the
\* last request was an upload that was rejected
C12_Witness ==
    /\ Len(matches) = 2
    /\ matches[1].file_path = matches[2].file_path
    /\ matches[1].metrics # matches[2].metrics
    /\ matches[1].user_id = DefaultUser.id
    /\ Len(streamers) > Len(DummyStreamers)
    /\ response.status = 400

ScrapedNameSet == {ScrapedNames[i] : i \in 1..Len(ScrapedNames)}

\* the rows of table that carry this name
RowsNamed(table, name) == {i \in 1..Len(table) : table[i].name = name}

UniqueNames(table) == \A i, j \in 1..Len(table) : table[i].name = table[j].name => i = j

\* C13: update_streamer_table is an upsert keyed by name.  For the data it
\* scraped, a name that has a row keeps that row, with the scraped rank and
\* metrics, and gets no other; a name that has none gets exactly one new row;
\* every other row is left as it is; names that were unique stay unique and
\* each scraped name ends with exactly one row.
C13_UpdateIsUpsertByName ==
    [][UpdateStreamerTable =>
         /\ \E data \in ScrapedData :
               \A e \in 1..Len(data) :
                   LET before == RowsNamed(streamers, data[e].name)
                       after == RowsNamed(streamers', data[e].name)
                   IN  /\ before # {} => after = before
                       /\ before = {} => Cardinality(after) = 1 /\ after \cap DOMAIN streamers = {}
                       /\ \A i \in after :
                             /\ streamers'[i].rank = data[e].rank
                             /\ JsonLoads(streamers'[i].metrics).value = data[e].metrics
                       /\ \A i \in before : streamers'[i].id = streamers[i].id
         /\ Len(streamers') =
               Len(streamers)
                 + Cardinality({n \in ScrapedNameSet : RowsNamed(streamers, n) = {}})
         /\ \A i \in 1..Len(streamers) :
               streamers[i].name \notin ScrapedNameSet => streamers'[i] = streamers[i]
         /\ (UniqueNames(streamers) => UniqueNames(streamers'))
         /\ \A n \in ScrapedNameSet : Cardinality(RowsNamed(streamers', n)) = 1]_vars

\* the scraped names were inserted after the five dummy rows and a later update
\* gave them other ranks: each has one row, the dummy rows are as init_db wrote
\* them
C13_Witness ==
    /\ Len(streamers) = Len(DummyStreamers) + Len(ScrapedNames)
    /\ \A i \in 1..Len(DummyStreamers) : streamers[i] = DummyStreamers[i]
    /\ \A n \in ScrapedNameSet : Cardinality(RowsNamed(streamers, n)) = 1
    /\ streamers[Len(DummyStreamers) + 1].name = ScrapedNames[1]
    /\ streamers[Len(DummyStreamers) + 1].rank = "Diamond"
    /\ streamers[Len(DummyStreamers) + 2].rank = "Gold"
    /\ Len(matches) > 0

\* C14: init_db is idempotent on an initialised store.  It inserts the default
\* user only into an empty users table and the five dummy streamers only into
\* an empty streamers table, it never touches matches, and run on a store that
\* is initialised it leaves users, matches and streamers unchanged.
C14_InitDbIsIdempotent ==
    [][InitDb =>
         /\ users' = IF users = <<>> THEN <<DefaultUser>> ELSE users
         /\ streamers' = IF streamers = <<>> THEN DummyStreamers ELSE streamers
         /\ matches' = matches
         /\ (initialised =>
                users' = users /\ matches' = matches /\ streamers' = streamers)]_vars

\* a store that init_db seeded, with an upload stored and the streamers updated
\* since: the seeds are in place once, among the later rows
C14_Witness ==
    /\ initialised
    /\ users = <<DefaultUser>>
    /\ Len(matches) = MaxMatches
    /\ Len(streamers) > Len(DummyStreamers)
    /\ SubSeq(streamers, 1, Len(DummyStreamers)) = DummyStreamers
    /\ \A i \in 1..Len(streamers) : streamers[i].id = i
    /\ response.status = 200

=============================================================================
